---------------------------- MODULE Spec2Model ----------------------------
(***************************************************************************)
(* A model of src/src/media_sorter.py (class MediaSorter).                 *)
(*                                                                         *)
(* The file system is a finite tree.  A file path is a record              *)
(*   [parent |-> <<directory names>>, stem |-> "clip", suffix |-> ".mp4"]  *)
(* (pathlib's parent / stem / suffix), a directory path is the sequence of *)
(* its names.  All paths are absolute, as in the script's entry point      *)
(* (source "/Volumes/Extreme SSD", backup below it).  The platform is      *)
(* POSIX: glob patterns are case-sensitive and os.rename replaces an       *)
(* existing destination file.                                              *)
(***************************************************************************)
EXTENDS Integers, Sequences, FiniteSets, TLC

VARIABLES
    files,           \* file path -> content identifier (the regular files)
    dirs,            \* the directories that exist
    backup_dir,      \* self.backup_dir
    person_dirs,     \* self.person_dirs
    operations_log,  \* self.operations_log
    pc,              \* position of the single thread of control
    zip_files,       \* unzip_directory: archives found by the current scan
    zip_done,        \* unzip_directory: those of zip_files already iterated
    media_moves,     \* flatten_media_files: planned media moves still to do
    nonmedia_moves,  \* flatten_media_files: planned non-media moves still to do
    sorted_dirs,     \* flatten_media_files: directories still to visit in cleanup
    scanned,         \* the regular files when flatten_media_files last scanned
    planned_ops,     \* process_directory: result of dry_run()
    exec_items,      \* process_directory: items the execute loop still yields
    attempts,        \* calls of process_file in the current run: item -> count
    saved_log,       \* content last written to operations_log.json
    start_files,     \* the regular files when process_directory was entered
    start_dirs,      \* the directories when process_directory was entered
    runs,            \* completed or started calls of process_directory(False)
    processed_size,  \* process_directory: the local processed_size
    total_size,      \* process_directory: the local total_size
    vanished,        \* files another process removed under the execute loop
    interrupted_log, \* content last written to operations_log_interrupted.json
    signal,          \* the ledger and the files when KeyboardInterrupt arrived
    classified       \* the last call of is_media_file: its inputs and result

vars == <<files, dirs, backup_dir, person_dirs, operations_log, pc, zip_files,
          zip_done, media_moves, nonmedia_moves, sorted_dirs, planned_ops,
          exec_items, attempts, saved_log, start_files, start_dirs, runs, scanned,
          processed_size, total_size, vanished, interrupted_log, signal,
          classified>>

----------------------------------------------------------------------------
(* Bounds of the model *)

\* at most this many regular files in the initial tree
MaxFiles == 3

\* operations_log is not extended beyond this length
MaxLog == 10

\* process_directory(dry_run=False) is entered at most this many times
MaxRuns == 2

----------------------------------------------------------------------------
(* Paths *)

source_dir == <<"A">>

InsideBackup == <<"A", "NonMedia">>

OutsideBackup == <<"B">>

F(parent, stem, suffix) == [parent |-> parent, stem |-> stem, suffix |-> suffix]

\* Path.name
Name(f) == f.stem \o f.suffix

\* the components of str(path) for a file path
Parts(f) == Append(f.parent, Name(f))

IsPrefix(p, q) == Len(p) <= Len(q) /\ SubSeq(q, 1, Len(p)) = p

\* the non-empty prefixes of a directory path: the path and its ancestors
Ancestors(d) == {SubSeq(d, 1, n) : n \in 1..Len(d)}

\* every name of the model that starts with the last name of a backup root is
\* that name followed by one of these
NameTails == {"", "2"}

\* str.startswith on one path component
NameStartsWith(n, b) == \E t \in NameTails : b \o t = n

\* str(path).startswith(str(prefix)), on the components of the two paths:
\* "/" occurs in no name, so the strings agree component by component up to
\* the last component of the prefix, which need only be a string prefix
StrStartsWith(parts, prefix) ==
    /\ Len(parts) >= Len(prefix)
    /\ \A i \in 1..(Len(prefix) - 1) : parts[i] = prefix[i]
    /\ NameStartsWith(parts[Len(prefix)], prefix[Len(prefix)])

\* Path.relative_to(source_dir) of a file under the source root
RelativeTo(f, root) ==
    F(SubSeq(f.parent, Len(root) + 1, Len(f.parent)), f.stem, f.suffix)

\* backup_dir / rel_path
Join(root, rel) == F(root \o rel.parent, rel.stem, rel.suffix)

----------------------------------------------------------------------------
(* Classifier *)

media_extensions ==
    {".mp4", ".avi", ".mov", ".mkv", ".wmv", ".flv",
     ".mp3", ".wav", ".flac", ".m4a", ".aac",
     ".jpg", ".jpeg", ".png", ".gif", ".bmp", ".tiff"}

zip_extensions == {".zip", ".ZIP"}

\* str.lower on the suffixes of the model
Lower(s) ==
    CASE s = ".MP4" -> ".mp4"
      [] s = ".JPG" -> ".jpg"
      [] s = ".Mp3" -> ".mp3"
      [] s = ".ZIP" -> ".zip"
      [] s = ".TXT" -> ".txt"
      [] OTHER -> s

NoMime == <<>>

\* mimetypes.guess_type: by extension, case-insensitively; <<type, subtype>>
GuessType(f) ==
    LET e == Lower(f.suffix) IN
    CASE e = ".txt" -> <<"text", "plain">>
      [] e = ".zip" -> <<"application", "zip">>
      [] e = ".json" -> <<"application", "json">>
      [] e = ".webm" -> <<"video", "webm">>
      [] e = ".svg" -> <<"image", "svg+xml">>
      [] e = ".mp4" -> <<"video", "mp4">>
      [] OTHER -> NoMime

\* a classifier that goes by the MIME type alone
is_media_by_mime(suffix, mime_type) ==
    IF mime_type = NoMime THEN "None"
    ELSE IF mime_type[1] \in {"video", "audio", "image"} THEN "True"
    ELSE "False"

\* lines 61-65 for a path with this suffix for which guess_type returns this
\* type: "True", "False" or "None" (line 65 returns the falsy mime_type
\* itself when no type was guessed)
is_media_result(suffix, mime_type) ==
    IF Lower(suffix) \in media_extensions THEN "True"
    ELSE IF mime_type = NoMime THEN "None"
    ELSE IF mime_type[1] \in {"video", "audio", "image"} THEN "True"
    ELSE "False"

\* the value is_media_file returns
is_media_file(f) == is_media_result(f.suffix, GuessType(f))

\* the truth value of is_media_file(f) in a condition
IsMedia(f) == is_media_file(f) = "True"

----------------------------------------------------------------------------
(* The file system *)

\* a regular file exists at these path components
FileAt(fs, parts) == \E g \in DOMAIN fs : Parts(g) = parts

\* Path.exists() of a file path
Exists(fs, ds, f) == f \in DOMAIN fs \/ Parts(f) \in ds

\* Path.mkdir(parents=True, exist_ok=True) raises (FileExistsError or
\* NotADirectoryError) exactly when the path or an ancestor is a regular file
MkdirFails(fs, d) == \E a \in Ancestors(d) : FileAt(fs, a)

\* the directories after a successful mkdir(parents=True, exist_ok=True)
Mkdir(ds, d) == ds \cup Ancestors(d)

\* the files with one added or replaced
Put(fs, f, c) == [g \in DOMAIN fs \cup {f} |-> IF g = f THEN c ELSE fs[g]]

\* the files with one removed (Path.unlink)
Unlink(fs, f) == [g \in DOMAIN fs \ {f} |-> fs[g]]

\* where shutil.move puts the source: into dst when dst is a directory
RealDst(ds, src, dst) ==
    IF Parts(dst) \in ds THEN F(Parts(dst), src.stem, src.suffix) ELSE dst

\* the outcome of shutil.move(src, dst) on one file system: "enoent" when the
\* source is missing (FileNotFoundError), "error" when dst is a directory
\* that already holds the source's name (shutil.Error) or the destination's
\* parent is missing, else "ok" (os.rename, which replaces a destination file)
MoveOutcome(fs, ds, src, dst) ==
    IF src \notin DOMAIN fs THEN "enoent"
    ELSE IF Parts(dst) \in ds /\ Exists(fs, ds, RealDst(ds, src, dst)) THEN "error"
    ELSE IF RealDst(ds, src, dst).parent \notin ds THEN "enoent"
    ELSE "ok"

\* the files after a successful shutil.move(src, dst)
MoveFiles(fs, ds, src, dst) ==
    LET real == RealDst(ds, src, dst) IN
    IF real = src THEN fs ELSE Unlink(Put(fs, real, fs[src]), src)

\* dir.rglob('*') restricted to regular files: the files below a directory
FilesUnder(fs, d) == {f \in DOMAIN fs : IsPrefix(d, f.parent)}

\* dir.rglob('*') restricted to directories: the directories strictly below
DirsUnder(ds, d) == {e \in ds : IsPrefix(d, e) /\ e # d}

----------------------------------------------------------------------------
(* Archives: the content identifiers that are readable zip files, and       *)
(* their members (path relative to the archive root, and content)           *)

Member(rel, stem, suffix, content) ==
    [rel |-> rel, stem |-> stem, suffix |-> suffix, content |-> content]

ArchiveMembers(c) ==
    CASE c = "zip_bonus" -> {Member(<<>>, "bonus", ".txt", "bonus")}
      [] c = "zip_3" -> {Member(<<>>, "n2", ".zip", "zip_2")}
      [] c = "zip_2" -> {Member(<<>>, "n1", ".zip", "zip_1")}
      [] c = "zip_1" -> {Member(<<>>, "leaf", ".txt", "leaf")}
      [] OTHER -> {}

\* zipfile.ZipFile(path) raises BadZipFile on any other content
IsZipContent(c) == c \in {"zip_bonus", "zip_3", "zip_2", "zip_1"}

\* the files after ZipFile.extractall(extract_dir): members replace files
RECURSIVE ExtractAll(_, _, _)
ExtractAll(fs, extract_dir, members) ==
    IF members = {} THEN fs
    ELSE LET m == CHOOSE x \in members : TRUE IN
         ExtractAll(Put(fs, F(extract_dir \o m.rel, m.stem, m.suffix), m.content),
                    extract_dir, members \ {m})

\* the directories after ZipFile.extractall(extract_dir)
ExtractDirs(ds, extract_dir, members) ==
    ds \cup UNION {Ancestors(extract_dir \o m.rel) : m \in members}

----------------------------------------------------------------------------
(* Initial trees: any at most MaxFiles of these files, with their parents   *)

Slot(file, content) == [file |-> file, content |-> content]

SourceSlots ==
    {Slot(F(<<"A">>, "video", ".mp4"), "video"),
     Slot(F(<<"A">>, "notes", ".txt"), "notes"),
     Slot(F(<<"A">>, "archive", ".zip"), "zip_bonus"),
     Slot(F(<<"A">>, "bad", ".ZIP"), "corrupt"),
     Slot(F(<<"A">>, "NonMedia2", ""), "other"),
     Slot(F(<<"A", "P">>, "clip", ".mp4"), "clip_root"),
     Slot(F(<<"A", "P">>, "n3", ".zip"), "zip_3"),
     Slot(F(<<"A", "P">>, "broken", ".zip"), "corrupt"),
     Slot(F(<<"A", "P", "a">>, "clip", ".mp4"), "clip_a"),
     Slot(F(<<"A", "P", "b">>, "clip", ".mp4"), "clip_b"),
     Slot(F(<<"A", "P", "c">>, "clip", ".mp4"), "clip_c"),
     Slot(F(<<"A", "P", "a">>, "doc", ".txt"), "doc")}

\* files already under the backup root b; the file named P stands where the
\* mirror of person directory P belongs
BackupSlots(b) ==
    {Slot(F(b, "notes", ".txt"), "old_notes"),
     Slot(F(b, "old", ".zip"), "zip_bonus"),
     Slot(F(b, "keep", ".mp4"), "keep"),
     Slot(F(b, "P", ""), "blocker")}

TreeFiles(S) == [f \in {s.file : s \in S} |-> (CHOOSE s \in S : s.file = f).content]

TreeDirs(S) == {source_dir} \cup UNION {Ancestors(s.file.parent) : s \in S}

\* line 48: the directories directly below the source root
PersonDirs(ds) == {d \in ds : Len(d) = Len(source_dir) + 1 /\ IsPrefix(source_dir, d)}

\* no KeyboardInterrupt has arrived
NoSignal == <<>>

\* is_media_file has not been called
NoCall == <<>>

\* what no step of the sorter itself touches: the interrupt handler's output
\* and the record of the last classifier call
EnvFrame == UNCHANGED <<interrupted_log, signal, classified>>

\* the state after MediaSorter(source_dir, backup_dir): the backup root below
\* the source root, already existing (the entry point creates it first) or
\* not yet, or outside the source root
Init ==
    \E b \in {InsideBackup, OutsideBackup}, pre \in BOOLEAN :
    \E S \in SUBSET (SourceSlots \cup BackupSlots(b)) :
        /\ Cardinality(S) <= MaxFiles
        /\ pre \/ (b = InsideBackup /\ S \subseteq SourceSlots)
        /\ backup_dir = b
        /\ files = TreeFiles(S)
        /\ dirs = TreeDirs(S) \cup (IF pre THEN Ancestors(b) ELSE {})
        /\ person_dirs = PersonDirs(TreeDirs(S) \cup (IF pre THEN Ancestors(b) ELSE {}))
        /\ operations_log = <<>>
        /\ pc = "idle"
        /\ zip_files = {}
        /\ zip_done = {}
        /\ media_moves = {}
        /\ nonmedia_moves = {}
        /\ sorted_dirs = {}
        /\ scanned = TreeFiles(S)
        /\ planned_ops = {}
        /\ exec_items = {}
        /\ attempts = [f \in {} |-> 0]
        /\ saved_log = <<>>
        /\ start_files = TreeFiles(S)
        /\ start_dirs = TreeDirs(S) \cup (IF pre THEN Ancestors(b) ELSE {})
        /\ runs = 0
        /\ processed_size = 0
        /\ total_size = 0
        /\ vanished = {}
        /\ interrupted_log = <<>>
        /\ signal = NoSignal
        /\ classified = NoCall

----------------------------------------------------------------------------
(* Operation ledger *)

NoPath == <<>>

NoSuchFile == "No such file or directory"

LogRoom == Len(operations_log) < MaxLog

\* the dictionary log_operation or unzip_directory builds; the timestamp is
\* left out, an absent key is the empty value
LogEntry(action, source, error, destination) ==
    [action |-> action, source |-> source, error |-> error,
     destination |-> destination,
     status |-> IF destination # NoPath THEN "success" ELSE ""]

\* a ledger that ignores the silent flag
log_operation_always(log, action, source, error, destination, silent) ==
    Append(log, LogEntry(action, source, error, destination))

\* self.operations_log after log_operation(...): the entry is appended unless
\* the call is silent and the error text names a missing file
log_operation(log, action, source, error, destination, silent) ==
    IF ~(silent /\ error = NoSuchFile)
    THEN Append(log, LogEntry(action, source, error, destination))
    ELSE log

----------------------------------------------------------------------------
(* Relocation planner *)

\* a planner that yields a file once only: what it planned before is left out
dry_run_consuming(fs) ==
    {[action |-> "move", source |-> item,
      destination |-> Join(backup_dir, RelativeTo(item, source_dir))] :
        item \in {f \in FilesUnder(fs, source_dir) :
                    ~IsMedia(f) /\ \A op \in planned_ops : op.source # f}}

\* the list dry_run returns, as the set of its entries
dry_run(fs) ==
    {[action |-> "move", source |-> item,
      destination |-> Join(backup_dir, RelativeTo(item, source_dir))] :
        item \in {f \in FilesUnder(fs, source_dir) : ~IsMedia(f)}}

Returned == {"idle", "dry_done", "declined", "done"}

\* process_directory(dry_run=True): lines 373-391
StartDryRun ==
    /\ pc \in Returned
    /\ pc # "dry_done"
    /\ dirs' = Mkdir(dirs, backup_dir)
    /\ planned_ops' = dry_run(files)
    /\ pc' = "dry_done"
    /\ start_files' = files
    /\ start_dirs' = dirs
    /\ UNCHANGED <<files, backup_dir, person_dirs, operations_log, zip_files,
                   zip_done, media_moves, nonmedia_moves, sorted_dirs,
                   exec_items, attempts, saved_log, runs, scanned,
                   processed_size, total_size, vanished>>
    /\ EnvFrame

\* process_directory(dry_run=False) up to the call of unzip_directory
Start ==
    /\ pc \in Returned
    /\ runs < MaxRuns
    /\ runs' = runs + 1
    /\ dirs' = Mkdir(dirs, backup_dir)
    /\ start_files' = files
    /\ start_dirs' = dirs
    /\ attempts' = [f \in {} |-> 0]
    /\ vanished' = {}
    /\ planned_ops' = {}
    /\ pc' = "unzip_scan"
    /\ UNCHANGED <<files, backup_dir, person_dirs, operations_log, zip_files,
                   zip_done, media_moves, nonmedia_moves, sorted_dirs,
                   exec_items, saved_log, scanned, processed_size, total_size>>
    /\ EnvFrame

----------------------------------------------------------------------------
(* Archive expander: unzip_directory *)

\* line 76: source_dir.rglob('*.zip') + source_dir.rglob('*.ZIP')
FindZips(fs) == {f \in FilesUnder(fs, source_dir) : f.suffix \in zip_extensions}

\* line 111: zip_path.parent / zip_path.stem
ExtractDir(z) == Append(z.parent, z.stem)

\* line 100: the archive lies in the backup directory
InBackup(f) == StrStartsWith(Parts(f), backup_dir)

\* why lines 111-121 raise for archive z, or "" when they do not
ExtractError(fs, z) ==
    IF MkdirFails(fs, ExtractDir(z)) THEN "Not a directory"
    ELSE IF z \notin DOMAIN fs THEN NoSuchFile
    ELSE IF ~IsZipContent(fs[z]) THEN "File is not a zip file"
    ELSE ""

\* a single pass: unzip_directory returns after the first pass
AfterZipSinglePass(z) ==
    IF zip_done \cup {z} = zip_files THEN "flatten_scan" ELSE "unzip_pass"

\* the loop position after archive z: the pass ends when all are iterated
AfterZip(z) == IF zip_done \cup {z} = zip_files THEN "unzip_scan" ELSE "unzip_pass"

\* the exception of one archive ends the whole pass
AfterZipErrorAbort(z) == "unzip_scan"

\* lines 135-146: after the handler the loop goes on with the next archive
AfterZipError(z) == AfterZip(z)

UnzipFrame ==
    /\ UNCHANGED <<backup_dir, person_dirs, media_moves, nonmedia_moves, sorted_dirs,
                   planned_ops, exec_items, attempts, saved_log, start_files,
                   start_dirs, runs, scanned, processed_size, total_size,
                   vanished>>
    /\ EnvFrame

\* lines 74-80: one discovery scan; unzip_directory returns when it finds none
UnzipScan ==
    /\ pc = "unzip_scan"
    /\ IF FindZips(files) = {}
       THEN pc' = "flatten_scan" /\ zip_files' = {}
       ELSE pc' = "unzip_pass" /\ zip_files' = FindZips(files)
    /\ zip_done' = {}
    /\ UNCHANGED <<files, dirs, operations_log>>
    /\ UnzipFrame

\* lines 100-102: an archive in the backup directory is passed over
UnzipSkip ==
    /\ pc = "unzip_pass"
    /\ \E z \in zip_files \ zip_done :
        /\ InBackup(z)
        /\ zip_done' = zip_done \cup {z}
        /\ pc' = AfterZip(z)
    /\ UNCHANGED <<files, dirs, operations_log, zip_files>>
    /\ UnzipFrame

\* lines 111-133: extract next to the archive, delete the archive, log it
UnzipExtract ==
    /\ pc = "unzip_pass"
    /\ LogRoom
    /\ \E z \in zip_files \ zip_done :
        /\ ~InBackup(z)
        /\ ExtractError(files, z) = ""
        /\ files' = Unlink(ExtractAll(files, ExtractDir(z), ArchiveMembers(files[z])), z)
        /\ dirs' = ExtractDirs(Mkdir(dirs, ExtractDir(z)), ExtractDir(z),
                               ArchiveMembers(files[z]))
        /\ operations_log' = Append(operations_log,
               LogEntry("unzip", Parts(z), "", ExtractDir(z)))
        /\ zip_done' = zip_done \cup {z}
        /\ pc' = AfterZip(z)
    /\ UNCHANGED zip_files
    /\ UnzipFrame

\* lines 135-146: the extraction raised; the archive stays, the error is logged
UnzipFail ==
    /\ pc = "unzip_pass"
    /\ LogRoom
    /\ \E z \in zip_files \ zip_done :
        /\ ~InBackup(z)
        /\ ExtractError(files, z) # ""
        /\ dirs' = IF MkdirFails(files, ExtractDir(z)) THEN dirs
                   ELSE Mkdir(dirs, ExtractDir(z))
        /\ operations_log' = Append(operations_log,
               LogEntry("unzip_error", Parts(z), ExtractError(files, z), NoPath))
        /\ zip_done' = zip_done \cup {z}
        /\ pc' = AfterZipError(z)
    /\ UNCHANGED <<files, zip_files>>
    /\ UnzipFrame

----------------------------------------------------------------------------
(* Relocation executor, flattening variant: flatten_media_files *)

\* lines 280 and 286: person_dir / item.name, then person_dir / stem_counter.suffix
Candidate(person_dir, item, counter) ==
    IF counter = 0 THEN F(person_dir, item.stem, item.suffix)
    ELSE F(person_dir, item.stem \o "_" \o ToString(counter), item.suffix)

\* lines 282-287: the first candidate that does not exist
RECURSIVE FreePath(_, _, _, _, _)
FreePath(fs, ds, person_dir, item, counter) ==
    IF Exists(fs, ds, Candidate(person_dir, item, counter))
    THEN FreePath(fs, ds, person_dir, item, counter + 1)
    ELSE Candidate(person_dir, item, counter)

\* lines 276-288: the planned moves <<item, new_path>> of the media files
ScanMedia(fs, ds) ==
    UNION {{<<item, FreePath(fs, ds, pd, item, 0)>> :
                item \in {f \in FilesUnder(fs, pd) : IsMedia(f)}} : pd \in person_dirs}

\* lines 289-293: the planned moves <<item, backup_path>> of the other files
ScanNonMedia(fs) ==
    UNION {{<<item, Join(backup_dir, RelativeTo(item, source_dir))>> :
                item \in {f \in FilesUnder(fs, pd) : ~IsMedia(f)}} : pd \in person_dirs}

\* the next phase of flatten_media_files with these moves still to do
FlattenPhase(mm, nm) ==
    IF mm # {} THEN "flatten_media"
    ELSE IF nm # {} THEN "flatten_nonmedia"
    ELSE "cleanup_scan"

FlattenFrame ==
    /\ UNCHANGED <<backup_dir, person_dirs, zip_files, zip_done, planned_ops,
                   exec_items, attempts, saved_log, start_files, start_dirs, runs,
                   processed_size, total_size, vanished>>
    /\ EnvFrame

\* lines 268-294: the scan of every person directory
FlattenScan ==
    /\ pc = "flatten_scan"
    /\ media_moves' = ScanMedia(files, dirs)
    /\ nonmedia_moves' = ScanNonMedia(files)
    /\ pc' = FlattenPhase(ScanMedia(files, dirs), ScanNonMedia(files))
    /\ scanned' = files
    /\ UNCHANGED <<files, dirs, operations_log, sorted_dirs>>
    /\ FlattenFrame

\* the body of the two move loops, lines 305-310 and 322-327: make the parent,
\* move, log; an exception at any point is printed and nothing is logged
MoveAndLog(old_path, new_path, action) ==
    IF MkdirFails(files, new_path.parent)
    THEN UNCHANGED <<files, dirs, operations_log>>
    ELSE /\ dirs' = Mkdir(dirs, new_path.parent)
         /\ IF MoveOutcome(files, Mkdir(dirs, new_path.parent), old_path, new_path) = "ok"
            THEN /\ files' = MoveFiles(files, Mkdir(dirs, new_path.parent),
                                       old_path, new_path)
                 /\ operations_log' = log_operation(operations_log, action,
                        Parts(old_path), "", Parts(new_path), FALSE)
            ELSE UNCHANGED <<files, operations_log>>

\* lines 304-311: one planned media move
FlattenMoveMedia ==
    /\ pc = "flatten_media"
    /\ LogRoom
    /\ \E m \in media_moves :
        /\ MoveAndLog(m[1], m[2], "flatten_media")
        /\ media_moves' = media_moves \ {m}
        /\ pc' = FlattenPhase(media_moves \ {m}, nonmedia_moves)
    /\ UNCHANGED <<nonmedia_moves, sorted_dirs, scanned>>
    /\ FlattenFrame

\* lines 321-328: one planned non-media move
FlattenMoveNonMedia ==
    /\ pc = "flatten_nonmedia"
    /\ LogRoom
    /\ \E m \in nonmedia_moves :
        /\ MoveAndLog(m[1], m[2], "move_nonmedia")
        /\ nonmedia_moves' = nonmedia_moves \ {m}
        /\ pc' = FlattenPhase({}, nonmedia_moves \ {m})
    /\ UNCHANGED <<media_moves, sorted_dirs, scanned>>
    /\ FlattenFrame

\* lines 334-343: the directories below the person directories
CleanupScan ==
    /\ pc = "cleanup_scan"
    /\ sorted_dirs' = UNION {DirsUnder(dirs, pd) : pd \in person_dirs}
    /\ pc' = IF UNION {DirsUnder(dirs, pd) : pd \in person_dirs} = {}
             THEN "plan" ELSE "cleanup"
    /\ UNCHANGED <<files, dirs, operations_log, media_moves, nonmedia_moves, scanned>>
    /\ FlattenFrame

\* line 342: len(str(x).split(os.sep)) of an absolute path
Depth(d) == Len(d) + 1

\* a check of the directory's own entries only
HasFilesDirect(fs, d) == \E f \in DOMAIN fs : f.parent = d

\* lines 355-358: os.walk finds a file below the directory
HasFiles(fs, d) == FilesUnder(fs, d) # {}

\* shutil.rmtree: the directory and everything below it
Rmtree(ds, d) == {e \in ds : ~IsPrefix(d, e)}

\* lines 350-365: the next directory, deepest first
CleanupStep ==
    /\ pc = "cleanup"
    /\ LogRoom
    /\ \E d \in sorted_dirs :
        /\ \A e \in sorted_dirs : Depth(e) <= Depth(d)
        /\ IF d \notin person_dirs /\ ~HasFiles(files, d) /\ d \in dirs
           THEN /\ dirs' = Rmtree(dirs, d)
                /\ operations_log' = log_operation(operations_log,
                       "remove_directory", d, "", NoPath, FALSE)
           ELSE UNCHANGED <<dirs, operations_log>>
        /\ sorted_dirs' = sorted_dirs \ {d}
        /\ pc' = IF sorted_dirs \ {d} = {} THEN "plan" ELSE "cleanup"
    /\ UNCHANGED <<files, media_moves, nonmedia_moves, scanned>>
    /\ FlattenFrame

----------------------------------------------------------------------------
(* Relocation executor, plain variant: process_file and the execute loop *)

\* lines 197-198: the mirror of the item under the backup root
DestPath(item) == Join(backup_dir, RelativeTo(item, source_dir))

\* how lines 197-202 end for an item: "ok", "enoent" (FileNotFoundError) or
\* "error" (any other exception)
ProcessOutcome(fs, ds, item) ==
    IF MkdirFails(fs, DestPath(item).parent) THEN "error"
    ELSE MoveOutcome(fs, Mkdir(ds, DestPath(item).parent), item, DestPath(item))

\* the value process_file returns
process_file_result(fs, ds, item) == ProcessOutcome(fs, ds, item) = "ok"

\* the files after process_file(item)
process_file_files(fs, ds, item) ==
    IF ProcessOutcome(fs, ds, item) = "ok"
    THEN MoveFiles(fs, Mkdir(ds, DestPath(item).parent), item, DestPath(item))
    ELSE fs

\* the directories after process_file(item)
process_file_dirs(fs, ds, item) ==
    IF MkdirFails(fs, DestPath(item).parent) THEN ds
    ELSE Mkdir(ds, DestPath(item).parent)

\* self.operations_log after process_file(item): lines 205, 210-212, 218
process_file_log(log, fs, ds, item) ==
    CASE ProcessOutcome(fs, ds, item) = "ok" ->
            log_operation(log, "move", Parts(item), "", Parts(DestPath(item)), FALSE)
      [] ProcessOutcome(fs, ds, item) = "enoent" ->
            log_operation(log, "error", Parts(item), NoSuchFile, NoPath, TRUE)
      [] OTHER ->
            log_operation(log, "error", Parts(item), "Not a directory", NoPath, FALSE)

\* lines 410-415: the items of source_dir.rglob('*') that pass the two tests
\* on the path alone (not below the backup directory, not media); is_file()
\* is evaluated when the item is reached
ExecCandidates(fs) ==
    {f \in FilesUnder(fs, source_dir) : ~InBackup(f) /\ ~IsMedia(f)}

\* the call count of process_file with one more call for item
Called(a, item) ==
    [g \in DOMAIN a \cup {item} |->
        IF g = item THEN (IF item \in DOMAIN a THEN a[item] + 1 ELSE 1) ELSE a[g]]

RunFrame ==
    /\ UNCHANGED <<backup_dir, person_dirs, zip_files, zip_done, media_moves,
                   nonmedia_moves, sorted_dirs, start_files, start_dirs, runs,
                   scanned>>
    /\ EnvFrame

\* st_size of a file with this content
Size(c) == IF c = "notes" THEN 2 ELSE 1

\* lines 416-424: processed_size after process_file(item) returned result on
\* the files fs_after; item.stat() raises FileNotFoundError for a missing item
ProgressAfter(size, fs_after, item, result) ==
    IF result /\ item \in DOMAIN fs_after THEN size + Size(fs_after[item]) ELSE size

\* the sum of st_size over a set of files
RECURSIVE SumSizes(_, _)
SumSizes(fs, S) ==
    IF S = {} THEN 0
    ELSE LET f == CHOOSE x \in S : TRUE IN Size(fs[f]) + SumSizes(fs, S \ {f})

\* lines 160-166: the total size of the non-media files below path
calculate_total_size(fs, path) ==
    SumSizes(fs, {f \in FilesUnder(fs, path) : ~IsMedia(f)})

\* lines 385-395: planned_ops = self.dry_run(), total_size computed,
\* processed_size = 0
Plan ==
    /\ pc = "plan"
    /\ planned_ops' = dry_run(files)
    /\ total_size' = calculate_total_size(files, source_dir)
    /\ processed_size' = 0
    /\ pc' = "confirm"
    /\ UNCHANGED <<files, dirs, operations_log, exec_items, attempts, saved_log,
                   vanished>>
    /\ RunFrame

\* lines 398-400: a declined prompt returns at once
Decline ==
    /\ pc = "confirm"
    /\ pc' = "declined"
    /\ UNCHANGED <<files, dirs, operations_log, planned_ops, exec_items, attempts,
                   saved_log, processed_size, total_size, vanished>>
    /\ RunFrame

\* lines 398-410: an accepted prompt starts the execute loop
Accept ==
    /\ pc = "confirm"
    /\ exec_items' = ExecCandidates(files)
    /\ pc' = IF ExecCandidates(files) = {} THEN "save" ELSE "execute"
    /\ UNCHANGED <<files, dirs, operations_log, planned_ops, attempts, saved_log,
                   processed_size, total_size, vanished>>
    /\ RunFrame

\* lines 410-424: the next item of the execute loop
Execute ==
    /\ pc = "execute"
    /\ LogRoom
    /\ \E item \in exec_items :
        /\ IF item \in DOMAIN files
           THEN /\ files' = process_file_files(files, dirs, item)
                /\ dirs' = process_file_dirs(files, dirs, item)
                /\ operations_log' = process_file_log(operations_log, files, dirs, item)
                /\ attempts' = Called(attempts, item)
                /\ processed_size' = ProgressAfter(processed_size,
                       process_file_files(files, dirs, item), item,
                       process_file_result(files, dirs, item))
           ELSE UNCHANGED <<files, dirs, operations_log, attempts, processed_size>>
        /\ exec_items' = exec_items \ {item}
        /\ pc' = IF exec_items \ {item} = {} THEN "save" ELSE "execute"
    /\ UNCHANGED <<planned_ops, saved_log, vanished, total_size>>
    /\ RunFrame

\* lines 415-424 and 208-213: the item passes is_file(), another process
\* removes it, and process_file is called for the file that is gone
ExecuteVanished ==
    /\ pc = "execute"
    /\ LogRoom
    /\ \E item \in exec_items :
        /\ item \in DOMAIN files
        /\ files' = process_file_files(Unlink(files, item), dirs, item)
        /\ dirs' = process_file_dirs(Unlink(files, item), dirs, item)
        /\ operations_log' =
               process_file_log(operations_log, Unlink(files, item), dirs, item)
        /\ attempts' = Called(attempts, item)
        /\ processed_size' = ProgressAfter(processed_size,
               process_file_files(Unlink(files, item), dirs, item), item,
               process_file_result(Unlink(files, item), dirs, item))
        /\ vanished' = vanished \cup {item}
        /\ exec_items' = exec_items \ {item}
        /\ pc' = IF exec_items \ {item} = {} THEN "save" ELSE "execute"
    /\ UNCHANGED <<planned_ops, saved_log, total_size>>
    /\ RunFrame

\* line 427
LogFile == F(backup_dir, "operations_log", ".json")

\* lines 427-432: the ledger is written and process_directory returns
SaveLog ==
    /\ pc = "save"
    /\ files' = Put(files, LogFile, "operations_log")
    /\ saved_log' = operations_log
    /\ pc' = "done"
    /\ UNCHANGED <<dirs, operations_log, planned_ops, exec_items, attempts,
                   processed_size, total_size, vanished>>
    /\ RunFrame

----------------------------------------------------------------------------
(* Cancellation: the KeyboardInterrupt handler of process_directory *)

\* the positions inside process_directory(dry_run=False) after line 373
Running ==
    {"unzip_scan", "unzip_pass", "flatten_scan", "flatten_media",
     "flatten_nonmedia", "cleanup_scan", "cleanup", "plan", "confirm",
     "execute", "save"}

\* line 437
InterruptedLogFile == F(backup_dir, "operations_log_interrupted", ".json")

\* lines 437-439: the files after the handler wrote the ledger
HandlerWrites(fs) == Put(fs, InterruptedLogFile, "operations_log")

\* what the signal found: the ledger and the files at its arrival
Signal(log, fs) == [log |-> log, files |-> fs]

InterruptFrame ==
    UNCHANGED <<backup_dir, person_dirs, operations_log, zip_files, zip_done,
                media_moves, nonmedia_moves, sorted_dirs, scanned, planned_ops,
                exec_items, attempts, saved_log, start_files, start_dirs,
                processed_size, total_size, vanished, classified>>

\* lines 434-442: KeyboardInterrupt arrives between two operations; no inner
\* handler catches it (they catch Exception), the ledger is written and
\* os._exit ends the process
Interrupt ==
    /\ pc \in Running
    /\ signal' = Signal(operations_log, files)
    /\ files' = HandlerWrites(files)
    /\ interrupted_log' = operations_log
    /\ pc' = "exited"
    /\ UNCHANGED <<dirs, runs>>
    /\ InterruptFrame

\* lines 202-205 and 434-442: KeyboardInterrupt arrives inside process_file
\* when shutil.move has moved the item and log_operation has not been called
InterruptInFlight ==
    /\ pc = "execute"
    /\ \E item \in exec_items :
        /\ item \in DOMAIN files
        /\ ProcessOutcome(files, dirs, item) = "ok"
        /\ signal' = Signal(operations_log, files)
        /\ files' = HandlerWrites(process_file_files(files, dirs, item))
        /\ dirs' = process_file_dirs(files, dirs, item)
    /\ interrupted_log' = operations_log
    /\ pc' = "exited"
    /\ UNCHANGED runs
    /\ InterruptFrame

\* lines 371-373 and 434-442: KeyboardInterrupt arrives when the try block is
\* entered and the backup directory is not made yet; open() in the handler
\* raises FileNotFoundError when the directory does not exist, and that
\* exception leaves process_directory
InterruptAtEntry ==
    /\ pc \in Returned
    /\ runs < MaxRuns
    /\ runs' = runs + 1
    /\ signal' = Signal(operations_log, files)
    /\ IF backup_dir \in dirs
       THEN /\ files' = HandlerWrites(files)
            /\ interrupted_log' = operations_log
            /\ pc' = "exited"
       ELSE /\ UNCHANGED <<files, interrupted_log>>
            /\ pc' = "crashed"
    /\ UNCHANGED dirs
    /\ InterruptFrame

----------------------------------------------------------------------------
(* Specifications *)

Next ==
    \/ StartDryRun
    \/ Start
    \/ UnzipScan
    \/ UnzipSkip
    \/ UnzipExtract
    \/ UnzipFail
    \/ FlattenScan
    \/ FlattenMoveMedia
    \/ FlattenMoveNonMedia
    \/ CleanupScan
    \/ CleanupStep
    \/ Plan
    \/ Decline
    \/ Accept
    \/ Execute
    \/ ExecuteVanished
    \/ SaveLog
    \/ Interrupt
    \/ InterruptInFlight
    \/ InterruptAtEntry

Spec == Init /\ [][Next]_vars

\* the suffixes is_media_file is called with
Suffixes ==
    media_extensions \cup
    {".MP4", ".JPG", ".Mp3", ".txt", ".TXT", ".zip", ".ZIP", ".json", ".webm",
     ".svg", ".xyz", ""}

\* what mimetypes.guess_type may return for a path: the tables it reads
\* differ from system to system
MimeTypes ==
    {NoMime, <<"video", "mp4">>, <<"video", "webm">>, <<"audio", "mpeg">>,
     <<"image", "jpeg">>, <<"image", "svg+xml">>, <<"text", "plain">>,
     <<"application", "zip">>, <<"application", "json">>, <<"chemical", "x-xyz">>}

\* one call of is_media_file
ClassifyCall ==
    /\ \E suffix \in Suffixes, mime_type \in MimeTypes :
          classified' = [suffix |-> suffix, mime_type |-> mime_type,
                         result |-> is_media_result(suffix, mime_type)]
    /\ UNCHANGED <<files, dirs, backup_dir, person_dirs, operations_log, pc,
                   zip_files, zip_done, media_moves, nonmedia_moves, sorted_dirs,
                   planned_ops, exec_items, attempts, saved_log, start_files,
                   start_dirs, runs, scanned, processed_size, total_size, vanished,
                   interrupted_log, signal>>

\* a sorter on an empty source root
ClassifyInit == Init /\ DOMAIN files = {} /\ backup_dir = InsideBackup /\ backup_dir \in dirs

\* calls of the classifier on any suffix with any lookup result
ClassifySpec == ClassifyInit /\ [][ClassifyCall]_vars

\* one call of unzip_directory on a tree whose archives are all readable
UnzipNext ==
    \/ Start
    \/ UnzipScan
    \/ UnzipSkip
    \/ UnzipExtract

\* a tree whose archives are all readable zip files
UnzipInit ==
    Init /\ \A f \in DOMAIN files : f.suffix \in zip_extensions => IsZipContent(files[f])

\* the single thread of control always takes its next step
UnzipSpec == UnzipInit /\ [][UnzipNext]_vars /\ WF_vars(UnzipNext)

----------------------------------------------------------------------------
(* Properties *)

\* the ledger holds an entry of this action for this source
Logged(action, source) ==
    \E i \in 1..Len(operations_log) :
        operations_log[i].action = action /\ operations_log[i].source = source

\* the media files of one name that the scan found in subdirectories of pd
Originals(pd, stem, suffix) ==
    {f \in FilesUnder(scanned, pd) :
        IsMedia(f) /\ f.parent # pd /\ f.stem = stem /\ f.suffix = suffix}

\* a media file the scan found in a subdirectory of pd, no file of its name
\* being at the root of pd
InSubdirOnly(pd, g) ==
    /\ g \in FilesUnder(scanned, pd)
    /\ IsMedia(g)
    /\ g.parent # pd
    /\ F(pd, g.stem, g.suffix) \notin DOMAIN scanned

\* C1: flattening loses no media file.  For the media files found in
\* subdirectories of a person directory whose name is not at its root: no two
\* planned moves share a destination, and once the move loops are over the
\* root holds name, name_1, ..., name_(k-1) for a name found in k
\* subdirectories, with the contents of the k originals.
C1_FlattenLosesNoMedia ==
    \A pd \in person_dirs :
        /\ pc = "flatten_media" =>
              \A m1 \in media_moves, m2 \in media_moves :
                  (InSubdirOnly(pd, m1[1]) /\ InSubdirOnly(pd, m2[1]) /\ m1[2] = m2[2])
                  => m1 = m2
        /\ pc = "cleanup_scan" =>
              \A g \in FilesUnder(scanned, pd) :
                 InSubdirOnly(pd, g)
                 => LET O == Originals(pd, g.stem, g.suffix)
                        N == {Candidate(pd, g, i) : i \in 0..(Cardinality(O) - 1)}
                    IN  /\ N \subseteq DOMAIN files
                        /\ {files[n] : n \in N \cap DOMAIN files} = {scanned[f] : f \in O}

\* C2: confirmation gate.  When process_directory(dry_run=False) has returned
\* because the prompt was declined, the files are those of the moment the
\* call was entered and the directories too, apart from the backup root.
C2_DeclineMutatesNothing ==
    pc = "declined" =>
        /\ files = start_files
        /\ dirs = start_dirs \cup Ancestors(backup_dir)

\* C3: archive expansion fixed point.  In the state in which unzip_directory
\* has returned, every file with suffix .zip or .ZIP under the source root
\* lies under the backup root.
C3_NoArchiveLeftAfterUnzip ==
    pc = "flatten_scan" =>
        \A f \in FilesUnder(files, source_dir) :
            f.suffix \in zip_extensions => IsPrefix(backup_dir, f.parent)

\* C3 witness: unzip_directory has returned after extracting an archive that
\* was nested three levels deep
C3_NestedArchivesExpanded ==
    /\ pc = "flatten_scan"
    /\ Logged("unzip", <<"A", "P", "n3.zip">>)
    /\ Logged("unzip", <<"A", "P", "n3", "n2.zip">>)
    /\ Logged("unzip", <<"A", "P", "n3", "n2", "n1.zip">>)
    /\ F(<<"A", "P", "n3", "n2", "n1">>, "leaf", ".txt") \in DOMAIN files

\* C4: archive expansion terminates.  A call of unzip_directory that has
\* started its first scan eventually returns, also when the backup root lies
\* under the source root and holds archives.
C4_UnzipReturns == (pc = "unzip_scan") ~> (pc = "flatten_scan")

\* C5: plain relocation never overwrites.  A step of the execute loop that
\* calls process_file for an existing file whose mirrored destination
\* already exists changes no file, has process_file return False and appends
\* one error entry for the file.
C5_PlainMoveNeverOverwrites ==
    [][\A item \in exec_items :
          (/\ pc = "execute"
           /\ exec_items' = exec_items \ {item}
           /\ item \in DOMAIN files
           /\ vanished' = vanished
           /\ DestPath(item) \in DOMAIN files)
          => /\ files' = files
             /\ ~process_file_result(files, dirs, item)
             /\ Len(operations_log') = Len(operations_log) + 1
             /\ operations_log'[Len(operations_log')].action = "error"
             /\ operations_log'[Len(operations_log')].source = Parts(item)]_vars

\* C6: planner candidacy.  When dry_run has returned, every planned operation
\* has as source a regular non-media file under the source root and not
\* under the backup root, and as destination the mirror of the source under
\* the backup root.
C6_PlannerCandidacy ==
    pc \in {"confirm", "dry_done"} =>
        \A op \in planned_ops :
            /\ op.source \in DOMAIN files
            /\ ~IsMedia(op.source)
            /\ IsPrefix(source_dir, op.source.parent)
            /\ ~IsPrefix(backup_dir, op.source.parent)
            /\ op.destination = Join(backup_dir, RelativeTo(op.source, source_dir))

\* C7: every previewed intent is executed exactly once and nothing else is.
\* When the execute loop of a confirmed run is over, the files process_file
\* was called for are the sources of the planned operations, each called for
\* once.
C7_EveryIntentAttemptedOnce ==
    pc \in {"save", "done"} =>
        /\ DOMAIN attempts = {op.source : op \in planned_ops}
        /\ \A item \in DOMAIN attempts : attempts[item] = 1

\* an extraction of archive z was attempted in this step
AttemptedUnzip ==
    /\ pc = "unzip_pass"
    /\ \E z \in zip_files \ zip_done : zip_done' = zip_done \cup {z} /\ ~InBackup(z)

\* a planned move of the flattening phase was attempted in this step
AttemptedFlattenMove ==
    \/ pc = "flatten_media" /\ media_moves' # media_moves
    \/ pc = "flatten_nonmedia" /\ nonmedia_moves' # nonmedia_moves

\* the removal of a directory was attempted in this step
AttemptedRemoval ==
    /\ pc = "cleanup"
    /\ \E d \in sorted_dirs :
          sorted_dirs' = sorted_dirs \ {d} /\ d \notin person_dirs /\ ~HasFiles(files, d)

\* process_file was called in this step and did not end in the silenced
\* missing-file error
AttemptedPlainMove ==
    /\ pc = "execute"
    /\ \E item \in exec_items :
          /\ exec_items' = exec_items \ {item}
          /\ item \in DOMAIN files
          /\ vanished' = vanished
          /\ ProcessOutcome(files, dirs, item) # "enoent"

\* C8: one ledger entry per attempted operation.  Every step that attempts an
\* extraction, a plain move, a flattening move or a directory removal appends
\* exactly one entry to operations_log (a silenced missing-file error aside),
\* and no step removes or changes an entry.
C8_OneEntryPerAttempt ==
    [][/\ (AttemptedUnzip \/ AttemptedFlattenMove \/ AttemptedRemoval \/ AttemptedPlainMove)
          => Len(operations_log') = Len(operations_log) + 1
       /\ Len(operations_log') >= Len(operations_log)
       /\ SubSeq(operations_log', 1, Len(operations_log)) = operations_log]_vars

\* C9: failures are not retried.  Within the first call of unzip_directory no
\* archive has two unzip_error entries.
C9_FailedArchiveNotRetried ==
    runs <= 1 =>
        \A i \in 1..Len(operations_log), j \in 1..Len(operations_log) :
            (/\ i < j
             /\ operations_log[i].action = "unzip_error"
             /\ operations_log[j].action = "unzip_error")
            => operations_log[i].source # operations_log[j].source

C11_CleanupRemovesOnlyEmpty ==
    [][pc = "cleanup" =>
          \A d \in dirs \ dirs' :
              d \notin person_dirs /\ FilesUnder(files, d) = {}]_vars

\* C11 witness: the cleanup loop is over; it removed one directory below a
\* person directory and kept another one that holds a file only deeper down
C11_RemovedOneKeptOne ==
    /\ pc = "plan"
    /\ \E pd \in person_dirs : \E d2 \in DirsUnder(dirs, pd) :
          /\ HasFiles(files, d2)
          /\ ~HasFilesDirect(files, d2)
    /\ \E i \in 1..Len(operations_log) :
          /\ operations_log[i].action = "remove_directory"
          /\ operations_log[i].source \notin dirs

\* the paths at which two file systems differ
Changed(fs1, fs2) ==
    {f \in DOMAIN fs1 \cup DOMAIN fs2 :
        ~(f \in DOMAIN fs1 /\ f \in DOMAIN fs2 /\ fs1[f] = fs2[f])}

\* C12: cancellation.  Once an interrupt has arrived during
\* process_directory, the process has exited, operations_log_interrupted.json
\* exists under the backup root and holds exactly the entries operations_log
\* held when the signal arrived, and apart from that file the files differ
\* from those at the arrival of the signal by at most one move.
C12_InterruptWritesLedger ==
    signal # NoSignal =>
        /\ pc = "exited"
        /\ InterruptedLogFile \in DOMAIN files
        /\ interrupted_log = signal.log
        /\ \/ Changed(signal.files, files) \subseteq {InterruptedLogFile}
           \/ \E item \in DOMAIN signal.files :
                 Changed(signal.files, files) \subseteq
                     {InterruptedLogFile, item, DestPath(item)}

\* C13: normal-completion flush.  When process_directory(dry_run=False) has
\* returned without an interrupt, every entry of operations_log is in the
\* content written to operations_log.json under the backup root.
C13_ReturnFlushesLedger ==
    (pc \in {"done", "declined"} /\ signal = NoSignal) =>
        \A i \in 1..Len(operations_log) :
            /\ LogFile \in DOMAIN files
            /\ i <= Len(saved_log)
            /\ saved_log[i] = operations_log[i]

\* process_file was called in this step for this item, which had passed
\* is_file() and was gone when shutil.move ran
CalledForVanished(item) ==
    /\ pc = "execute"
    /\ item \in exec_items
    /\ item \notin vanished
    /\ vanished' = vanished \cup {item}

ErrorFree ==
    /\ vanished = {}
    /\ signal = NoSignal
    /\ \A i \in 1..Len(operations_log) :
          operations_log[i].action \notin {"error", "unzip_error"}

\* the ledger entries with status success whose action is one of these
SuccessEntries(actions) ==
    {i \in 1..Len(operations_log) :
        operations_log[i].action \in actions /\ operations_log[i].status = "success"}

\* the tree of the end-to-end scenario: A/video.mp4, A/notes.txt, A/archive.zip
ScenarioTree ==
    TreeFiles({Slot(F(<<"A">>, "video", ".mp4"), "video"),
               Slot(F(<<"A">>, "notes", ".txt"), "notes"),
               Slot(F(<<"A">>, "archive", ".zip"), "zip_bonus")})

\* C15, the scenario: after the first confirmed run on the scenario tree with
\* backup root A/NonMedia, video.mp4 is where it was, notes.txt is at
\* A/NonMedia/notes.txt, archive.zip is gone, bonus.txt is at the mirror of
\* its extracted location, and the ledger has an unzip entry and two
\* successful move entries.
C15_ScenarioOutcome ==
    (/\ pc = "done" /\ runs = 1 /\ ErrorFree
     /\ start_files = ScenarioTree /\ backup_dir = InsideBackup) =>
        /\ F(<<"A">>, "video", ".mp4") \in DOMAIN files
        /\ F(<<"A", "NonMedia">>, "notes", ".txt") \in DOMAIN files
        /\ F(<<"A">>, "notes", ".txt") \notin DOMAIN files
        /\ F(<<"A">>, "archive", ".zip") \notin DOMAIN files
        /\ F(<<"A", "NonMedia", "archive">>, "bonus", ".txt") \in DOMAIN files
        /\ Cardinality(SuccessEntries({"unzip"})) >= 1
        /\ Cardinality(SuccessEntries({"move", "move_nonmedia"})) >= 2

\* C15: end-to-end run.  The scenario ends as described, and after every
\* confirmed run without a failure no non-media file is under the source
\* root outside the backup root, and every media file under the backup root
\* was under it when the run started.
C15_EndToEnd ==
    /\ C15_ScenarioOutcome
    /\ (pc = "done" /\ ErrorFree) =>
          /\ \A f \in FilesUnder(files, source_dir) :
                ~IsMedia(f) => IsPrefix(backup_dir, f.parent)
          /\ \A f \in FilesUnder(files, backup_dir) :
                IsMedia(f) =>
                    \E g \in FilesUnder(start_files, backup_dir) :
                        start_files[g] = files[f]

\* dry_run was called in this step: by process_directory(dry_run=True) or at
\* line 385 of a real run
DryRunCalled ==
    \/ pc = "plan" /\ pc' = "confirm"
    \/ pc \in Returned /\ pc' = "dry_done"

C17_ExtensionRule ==
    classified # NoCall =>
        (Lower(classified.suffix) \in media_extensions => classified.result = "True")

\* C17 witness: the classifier was called for an upper-case media suffix for
\* which no MIME type is known
C17_UpperCaseNoMime ==
    /\ classified # NoCall
    /\ classified.suffix = ".MP4"
    /\ classified.mime_type = NoMime
    /\ classified.result = "True"

\* C18: classifier, fallback rule.  A call of is_media_file for a path whose
\* suffix is no media extension returns the boolean False when no MIME type
\* is found, and returns True exactly when a type is found whose top-level
\* category is video, audio or image.
C18_FallbackRule ==
    (classified # NoCall /\ Lower(classified.suffix) \notin media_extensions) =>
        /\ classified.mime_type = NoMime => classified.result = "False"
        /\ classified.result = "True" <=>
              (/\ classified.mime_type # NoMime
               /\ classified.mime_type[1] \in {"video", "audio", "image"})

\* C19: flattening is idempotent.  In the second run, the first having logged
\* no failure, no step of the two move loops of flatten_media_files moves or
\* renames a file outside the backup root; a media file at the root of its
\* person directory keeps its name.
C19_SecondFlattenMovesNothing ==
    [][(/\ runs = 2
        /\ ErrorFree
        /\ pc \in {"flatten_media", "flatten_nonmedia"}
        /\ signal' = NoSignal) =>
           \A f \in DOMAIN files :
               ~IsPrefix(backup_dir, f.parent) =>
                   f \in DOMAIN files' /\ files'[f] = files[f]]_vars

\* C20: the backup root is never source material.  When the backup root is a
\* directory below the source root that existed when the sorter was
\* constructed, no step removes a file from the path it has under the backup
\* root.
C20_BackupFilesStay ==
    [][(IsPrefix(source_dir, backup_dir) /\ backup_dir \in person_dirs) =>
           \A f \in FilesUnder(files, backup_dir) : f \in DOMAIN files']_vars

\* C21: progress accounting counts successful moves.  Every step of the
\* execute loop in which process_file returns True adds the size of the moved
\* file to processed_size, and after a confirmed run without a failure in
\* which process_file was called for every file counted in total_size,
\* processed_size equals total_size.
C21_ProgressCountsMoves ==
    /\ [][\A item \in exec_items :
             (/\ pc = "execute"
              /\ exec_items' = exec_items \ {item}
              /\ item \in DOMAIN files
              /\ vanished' = vanished
              /\ process_file_result(files, dirs, item))
             => processed_size' = processed_size + Size(files[item])]_vars
    /\ []((/\ pc = "done"
           /\ ErrorFree
           /\ \A op \in planned_ops : op.source \in DOMAIN attempts)
          => processed_size = total_size)

=============================================================================
